---- MODULE Spec2Model ----
(***************************************************************************)
(* Model of the data-engineering pipeline of Asian-Market-Quant            *)
(* (src/src/data_cleaning/data_engineering.py).                            *)
(*                                                                         *)
(* Dates are day numbers: day 0 is Friday 2024-01-26, so days 1 and 2 are  *)
(* a weekend, days 3..5 are Mon 29 .. Wed 31 January and day 6 is Thursday *)
(* 1 February.  A cell is an exact rational <<n, d>> (d >= 0) standing for *)
(* the float64 the code holds: <<0, 0>> is NaN, <<1, 0>> and <<-1, 0>> are *)
(* the infinities.  Float rounding is not modelled.                        *)
(***************************************************************************)
EXTENDS Integers, Sequences, FiniteSets, TLC

\* ------------------------------------------------------------------ bounds
\* Longest raw index (rows of the raw sheet) drawn for the Cleaner.
MaxLen == 3
\* Last day number a raw index may hold.
MaxDay == 6
\* Most rows of the raw workbook the pipeline is run on.
MaxRows == 2
\* Most runs of an entry point in one behaviour.
MaxRuns == 2

\* ------------------------------------------------------------ cell values
NaN == <<0, 0>>

Abs(n) == IF n < 0 THEN 0 - n ELSE n

Sign(n) == IF n < 0 THEN 0 - 1 ELSE IF n > 0 THEN 1 ELSE 0

RECURSIVE GCD(_, _)
GCD(a, b) == IF b = 0 THEN a ELSE GCD(b, a % b)

\* The canonical pair of n/d (d >= 0): lowest terms, NaN and infinities kept.
Norm(n, d) ==
    IF d = 0 THEN <<Sign(n), 0>>
    ELSE LET g == GCD(Abs(n), d) IN <<Sign(n) * (Abs(n) \div g), d \div g>>

Num(v) == <<v, 1>>

isna(x) == x = NaN

\* The four operations cancel common factors before they multiply, so that
\* intermediate products stay small; the values are those of n/d arithmetic.
RAdd(x, y) ==
    IF x[2] = 0 \/ y[2] = 0 THEN Norm(x[1] * y[2] + y[1] * x[2], x[2] * y[2])
    ELSE LET g == GCD(x[2], y[2])
         IN Norm(x[1] * (y[2] \div g) + y[1] * (x[2] \div g), (x[2] \div g) * y[2])

RSub(x, y) == RAdd(x, <<0 - y[1], y[2]>>)

RMul(x, y) ==
    IF x[2] = 0 \/ y[2] = 0 \/ x[1] = 0 \/ y[1] = 0 THEN Norm(x[1] * y[1], x[2] * y[2])
    ELSE LET g == GCD(Abs(x[1]), y[2])
             h == GCD(Abs(y[1]), x[2])
         IN Norm((x[1] \div g) * (y[1] \div h), (x[2] \div h) * (y[2] \div g))

\* A finite nonzero value divided by zero is an infinity, 0 / 0 is NaN.
RDiv(x, y) ==
    IF y[2] # 0 /\ y[1] = 0 THEN (IF x[2] = 0 THEN x ELSE <<Sign(x[1]), 0>>)
    ELSE RMul(x, <<Sign(y[1]) * y[2], Abs(y[1])>>)

\* x < y for two finite values.
RLess(x, y) == x[1] * y[2] < y[1] * x[2]

RECURSIVE Pow10(_)
Pow10(k) == IF k = 0 THEN 1 ELSE 10 * Pow10(k - 1)

\* round(x, k): the nearest multiple of 10^-k, a tie going to the even one;
\* NaN and the infinities are returned as they are.
Round(x, k) ==
    IF x[2] = 0 THEN x
    ELSE LET whole == x[1] \div x[2]
             rest == (x[1] % x[2]) * Pow10(k)
             low == rest \div x[2]
             twice == 2 * (rest % x[2])
             up == twice > x[2] \/ (twice = x[2] /\ low % 2 = 1)
         IN RAdd(Num(whole), Norm(IF up THEN low + 1 ELSE low, Pow10(k)))

\* ---------------------------------------------------------------- helpers
SeqToSet(s) == {s[i] : i \in 1..Len(s)}

SetMin(S) == CHOOSE x \in S : \A y \in S : x <= y

SetMax(S) == CHOOSE x \in S : \A y \in S : y <= x

RECURSIVE SortedSeq(_)
SortedSeq(S) == IF S = {} THEN <<>> ELSE <<SetMin(S)>> \o SortedSeq(S \ {SetMin(S)})

\* --------------------------------------------------------------- calendar
\* 0 = Monday .. 6 = Sunday; day 0 is a Friday.
Weekday(d) == (d + 4) % 7

IsBusinessDay(d) == Weekday(d) < 5

\* A plausible slip: freq='D', every calendar day of [lo, hi].
date_range_D(lo, hi) == SortedSeq(lo..hi)

\* pandas.date_range(lo, hi, freq='B'): the Monday-Friday dates of [lo, hi].
date_range(lo, hi) == SortedSeq({d \in lo..hi : IsBusinessDay(d)})

\* ----------------------------------------------------------------- frames
\* A label that pd.to_datetime cannot parse.
BadLabel == 0 - 1

NoData == [c \in {} |-> <<>>]

None == [kind |-> "None", index |-> <<>>, data |-> NoData]

\* The call raised (the exception leaves the function).
Raised == [kind |-> "Raised", index |-> <<>>, data |-> NoData]

Frame(index, data) == [kind |-> "Frame", index |-> index, data |-> data]

columns(df) == DOMAIN df.data

\* df.columns.str.contains("^Unnamed"), over the column names of the model.
IsUnnamed(c) == c \in {"Unnamed: 1"}

\* Index.is_unique
is_unique(index) == \A i, j \in 1..Len(index) : index[i] = index[j] => i = j

\* pd.to_datetime(index) succeeds
IsDateIndex(index) == \A i \in 1..Len(index) : index[i] # BadLabel

\* A plausible slip: fill gaps from the next observation instead.
bfill(s) ==
    [k \in 1..Len(s) |->
        LET J == {j \in k..Len(s) : ~isna(s[j])}
        IN IF J = {} THEN NaN ELSE s[SetMin(J)]]

\* A plausible slip: ffill(limit=1), at most one row is filled after a value.
ffill_limit1(s) ==
    [k \in 1..Len(s) |->
        IF ~isna(s[k]) \/ k = 1 THEN s[k] ELSE s[k - 1]]

\* Series.ffill(): the last non-missing value at or before each row.
ffill(s) ==
    [k \in 1..Len(s) |->
        LET J == {j \in 1..k : ~isna(s[j])}
        IN IF J = {} THEN NaN ELSE s[SetMax(J)]]

\* DataFrame.reindex(dti) on a unique index: the row of each new label, or NaN.
reindex(df, dti) ==
    Frame(dti,
          [c \in columns(df) |->
              [k \in 1..Len(dti) |->
                  IF dti[k] \in SeqToSet(df.index)
                  THEN df.data[c][CHOOSE i \in 1..Len(df.index) : df.index[i] = dti[k]]
                  ELSE NaN]])

\* DataFrame.asfreq('B'): an empty frame is copied; otherwise the frame is
\* reindexed on date_range(min, max); reindex raises on duplicate labels.
asfreq_B(df) ==
    IF Len(df.index) = 0 THEN df
    ELSE IF ~is_unique(df.index) THEN Raised
    ELSE reindex(df, date_range(SetMin(SeqToSet(df.index)), SetMax(SeqToSet(df.index))))

\* A plausible slip: asfreq('B') without the forward fill.
asfreq_nofill(df) == asfreq_B(df)

\* asfreq('B').ffill()
asfreq_ffill(df) ==
    LET r == asfreq_B(df)
    IN IF r.kind = "Raised" THEN Raised
       ELSE Frame(r.index, [c \in columns(r) |-> ffill(r.data[c])])

clean_and_standardize(df) ==
    IF df.kind = "None" THEN None
    ELSE LET kept == Frame(df.index,
                           [c \in {x \in columns(df) : ~IsUnnamed(x)} |-> df.data[c]])
         IN IF ~IsDateIndex(kept.index) THEN None
            ELSE asfreq_ffill(kept)

\* ------------------------------------------------------ CurrencyNormalizer
\* The default fx_mapping of normalize_to_usd: ticker -> FX ticker.
DefaultFxMapping ==
    [t \in {"NKY Index", "PCOMP Index", "FMETF PM Equity", "GTPHP5yr Corp"} |->
        IF t = "NKY Index" THEN "USDJPY Curncy" ELSE "USDPHP Index"]

\* fx_ticker.startswith('USD'), over the FX names of the model.
StartsWithUSD(name) == name \in {"USDJPY Curncy", "USDPHP Index"}

\* The quote convention of an FX ticker: "USD-base" for a direct USD/XXX
\* quote (units of the foreign currency per dollar), "foreign-base" for an
\* indirect XXX/USD quote.  'JPY Curncy' is the yen-per-dollar spot rate
\* under a name that does not begin with USD.
Convention(fx_ticker) ==
    IF fx_ticker \in {"USDJPY Curncy", "USDPHP Index", "JPY Curncy"}
    THEN "USD-base" ELSE "foreign-base"

\* A variant that looks the FX column up with reindex, so that a declared
\* ticker whose FX ticker is not a column is divided by a missing rate.
normalize_to_usd_reindexed(df, fx_mapping) ==
    IF df.kind = "None" THEN None
    ELSE Frame(df.index,
               [c \in columns(df) |->
                   IF c \in DOMAIN fx_mapping
                   THEN [k \in 1..Len(df.index) |->
                            IF fx_mapping[c] \notin columns(df) THEN NaN
                            ELSE IF StartsWithUSD(fx_mapping[c])
                            THEN RDiv(df.data[c][k], df.data[fx_mapping[c]][k])
                            ELSE RMul(df.data[c][k], df.data[fx_mapping[c]][k])]
                   ELSE df.data[c]])

\* A variant that fills the missing cells of a converted column with zero.
normalize_to_usd_fillna(df, fx_mapping) ==
    IF df.kind = "None" THEN None
    ELSE Frame(df.index,
               [c \in columns(df) |->
                   IF c \in DOMAIN fx_mapping /\ fx_mapping[c] \in columns(df)
                   THEN [k \in 1..Len(df.index) |->
                            LET v == IF StartsWithUSD(fx_mapping[c])
                                     THEN RDiv(df.data[c][k], df.data[fx_mapping[c]][k])
                                     ELSE RMul(df.data[c][k], df.data[fx_mapping[c]][k])
                            IN IF isna(v) THEN Num(0) ELSE v]
                   ELSE df.data[c]])

\* The tickers of fx_mapping are converted one after the other (lines
\* 152-161); no FX ticker of the tables considered is itself a key, so each
\* conversion reads the panel's own FX column.
normalize_to_usd(df, fx_mapping) ==
    IF df.kind = "None" THEN None
    ELSE Frame(df.index,
               [c \in columns(df) |->
                   IF c \in DOMAIN fx_mapping /\ fx_mapping[c] \in columns(df)
                   THEN [k \in 1..Len(df.index) |->
                            IF StartsWithUSD(fx_mapping[c])
                            THEN RDiv(df.data[c][k], df.data[fx_mapping[c]][k])
                            ELSE RMul(df.data[c][k], df.data[fx_mapping[c]][k])]
                   ELSE df.data[c]])

\* ------------------------------------------------------- FuturesRollHandler
DefaultFuturesContracts == {"CO1 Comdty", "GOLDS Index", "S 1 Comdty"}

RECURSIVE RSum(_, _)
RSum(s, K) ==
    IF K = {} THEN Num(0)
    ELSE LET k == SetMin(K) IN RAdd(s[k], RSum(s, K \ {k}))

\* A variant with a window of two rows.
rolling_mean_window2(s) ==
    [k \in 1..Len(s) |->
        LET W == {j \in 1..k : j > k - 2 /\ ~isna(s[j])}
        IN IF W = {} THEN NaN ELSE RDiv(RSum(s, W), Num(Cardinality(W)))]

\* Series.rolling(window=3, min_periods=1).mean()
rolling_mean(s) ==
    [k \in 1..Len(s) |->
        LET W == {j \in 1..k : j > k - 3 /\ ~isna(s[j])}
        IN IF W = {} THEN NaN ELSE RDiv(RSum(s, W), Num(Cardinality(W)))]

handle_futures_rolls(df, futures_contracts) ==
    IF df.kind = "None" THEN None
    ELSE Frame(df.index,
               [c \in columns(df) |->
                   IF c \in futures_contracts THEN rolling_mean(df.data[c])
                   ELSE df.data[c]])

\* -------------------------------------------------------- ReturnsCalculator
\* Calendar month of a day number: days 0..5 are January, 6..34 February.
MonthOf(d) == IF d <= 5 THEN 0 ELSE IF d <= 34 THEN 1 ELSE 2

\* The month-end label resample('M') gives a month.
MonthEnd(m) == IF m = 0 THEN 5 ELSE IF m = 1 THEN 34 ELSE 65

\* Series.pct_change(): the series is padded (fill_method='pad'), then
\* each row is divided by the previous one, minus 1; the first row is NaN.
pct_change(s) ==
    LET p == ffill(s)
    IN [k \in 1..Len(s) |->
           IF k = 1 THEN NaN ELSE RSub(RDiv(p[k], p[k - 1]), Num(1))]

\* The rows of a frame at the positions of K, in order.
take(df, K) ==
    LET pos == SortedSeq(K)
    IN Frame([k \in 1..Len(pos) |-> df.index[pos[k]]],
             [c \in columns(df) |-> [k \in 1..Len(pos) |-> df.data[c][pos[k]]]])

\* DataFrame.dropna(): the rows without any missing cell.
dropna(df) ==
    take(df, {k \in 1..Len(df.index) : \A c \in columns(df) : ~isna(df.data[c][k])})

frame_pct_change(df) ==
    Frame(df.index, [c \in columns(df) |-> pct_change(df.data[c])])

\* DataFrame.resample('M').last(): one row per calendar month from the first
\* to the last date, holding each column's last non-missing value of the month.
resample_M_last(df) ==
    IF Len(df.index) = 0 THEN df
    ELSE LET months == SortedSeq(MonthOf(df.index[1])..MonthOf(df.index[Len(df.index)]))
         IN Frame([m \in 1..Len(months) |-> MonthEnd(months[m])],
                  [c \in columns(df) |->
                      [m \in 1..Len(months) |->
                          LET J == {j \in 1..Len(df.index) :
                                       MonthOf(df.index[j]) = months[m] /\ ~isna(df.data[c][j])}
                          IN IF J = {} THEN NaN ELSE df.data[c][SetMax(J)]]])

\* period.upper()
upper(period) == IF period = "d" THEN "D" ELSE IF period = "m" THEN "M" ELSE period

calculate_returns(df, period) ==
    IF df.kind = "None" THEN None
    ELSE IF upper(period) = "D" THEN dropna(frame_pct_change(df))
    ELSE IF upper(period) = "M" THEN dropna(frame_pct_change(resample_M_last(df)))
    ELSE None

\* -------------------------------------------------------- DictionaryBuilder
NoEntries == [c \in {} |-> <<>>]

NoDict == [kind |-> "None", entries |-> NoEntries, created |-> 0]

\* A cell of a non-numeric (object dtype) column, and the 'N/A' string.
Text == <<"text">>

NotApplicable == <<"N/A">>

\* pd.api.types.is_numeric_dtype(series)
is_numeric_dtype(s) == \A k \in 1..Len(s) : s[k] # Text

\* The positions of the non-missing cells of a series.
Valid(s) == {k \in 1..Len(s) : ~isna(s[k])}

\* Series.count()
count(s) == Cardinality(Valid(s))

\* Series.mean(): the mean of the non-missing cells, NaN without any.
mean(s) == IF Valid(s) = {} THEN NaN ELSE RDiv(RSum(s, Valid(s)), Num(count(s)))

RECURSIVE RPow(_, _)
RPow(x, p) == IF p = 0 THEN Num(1) ELSE RMul(x, RPow(x, p - 1))

\* The sum over the non-missing cells of (cell - mean)^p.
RECURSIVE SumDev(_, _, _, _)
SumDev(s, m, p, K) ==
    IF K = {} THEN Num(0)
    ELSE LET k == SetMin(K) IN RAdd(RPow(RSub(s[k], m), p), SumDev(s, m, p, K \ {k}))

\* The sample variance (ddof = 1) of the non-missing cells, NaN for fewer
\* than two of them.
var(s) ==
    IF count(s) < 2 THEN NaN
    ELSE RDiv(SumDev(s, mean(s), 2, Valid(s)), Num(count(s) - 1))

RECURSIVE ISqrt(_)
ISqrt(n) ==
    IF n < 2 THEN n
    ELSE LET r == 2 * ISqrt(n \div 4)
         IN IF r + 1 <= n \div (r + 1) THEN r + 1 ELSE r

IsSquare(n) == ISqrt(n) * ISqrt(n) = n

\* round(sign * sqrt(x), k) for x = n/d >= 0: the rounded rational when n
\* and d are perfect squares; otherwise the irrational value is held as the
\* triple <<sign * n, d, k>>, which is the same for two values exactly when
\* their squares, signs and digits are.  NaN and infinity stay as they are.
RoundRoot(sign, x, k) ==
    IF x[2] = 0 THEN <<sign * x[1], 0>>
    ELSE IF IsSquare(x[1]) /\ IsSquare(x[2])
    THEN Round(<<sign * ISqrt(x[1]), ISqrt(x[2])>>, k)
    ELSE <<sign * x[1], x[2], k>>

\* Series.min() and Series.max() over the non-missing cells.
series_min(s) ==
    IF Valid(s) = {} THEN NaN
    ELSE s[CHOOSE k \in Valid(s) : \A j \in Valid(s) : ~RLess(s[j], s[k])]

series_max(s) ==
    IF Valid(s) = {} THEN NaN
    ELSE s[CHOOSE k \in Valid(s) : \A j \in Valid(s) : ~RLess(s[k], s[j])]

\* round(Series.skew(), 4): NaN for fewer than three non-missing cells, 0
\* for a constant series, else
\* count * sqrt(count - 1) / (count - 2) * m3 / m2^1.5 with mp the sum of
\* (cell - mean)^p; the value is rounded from its sign and its square.
skew(s) ==
    IF count(s) < 3 THEN NaN
    ELSE LET n == count(s)
             m2 == SumDev(s, mean(s), 2, Valid(s))
             m3 == SumDev(s, mean(s), 3, Valid(s))
             ratio == RDiv(m3, m2)
         IN IF m2 = Num(0) THEN Num(0)
            ELSE RoundRoot(Sign(m3[1]),
                           RMul(Norm(n * n * (n - 1), (n - 2) * (n - 2)),
                                RDiv(RMul(ratio, ratio), m2)),
                           4)

\* daily_ret_stats of a ticker without return statistics ({} at line 264).
NoReturnStats == [stat \in {} |-> NaN]

\* A variant that annualizes with 365 calendar days.
ReturnStats_365(daily_returns, column) ==
    IF daily_returns.kind # "Frame" THEN NoReturnStats
    ELSE IF column \notin columns(daily_returns) THEN NoReturnStats
    ELSE LET daily_ret == daily_returns.data[column]
         IN IF count(daily_ret) = 0 THEN NoReturnStats
            ELSE [Mean   |-> Round(RMul(mean(daily_ret), Num(100)), 4),
                  StdDev |-> RoundRoot(1, RMul(var(daily_ret), Num(10000)), 4),
                  Min    |-> Round(RMul(series_min(daily_ret), Num(100)), 4),
                  Max    |-> Round(RMul(series_max(daily_ret), Num(100)), 4),
                  Skewness |-> skew(daily_ret),
                  AnnualizedVolatility |->
                      RoundRoot(1, RMul(RMul(var(daily_ret), Num(365)), Num(10000)), 4)]

\* Lines 264-275: the return statistics of a ticker, from the non-missing
\* cells of its column of daily_returns.
ReturnStats(daily_returns, column) ==
    IF daily_returns.kind # "Frame" THEN NoReturnStats
    ELSE IF column \notin columns(daily_returns) THEN NoReturnStats
    ELSE LET daily_ret == daily_returns.data[column]
         IN IF count(daily_ret) = 0 THEN NoReturnStats
            ELSE [Mean   |-> Round(RMul(mean(daily_ret), Num(100)), 4),
                  StdDev |-> RoundRoot(1, RMul(var(daily_ret), Num(10000)), 4),
                  Min    |-> Round(RMul(series_min(daily_ret), Num(100)), 4),
                  Max    |-> Round(RMul(series_max(daily_ret), Num(100)), 4),
                  Skewness |-> skew(daily_ret),
                  AnnualizedVolatility |->
                      RoundRoot(1, RMul(RMul(var(daily_ret), Num(252)), Num(10000)), 4)]

\* A variant that divides by the number of observed rows' span instead of
\* all rows: the rows from the first observation on.
Completeness_since_start(s) ==
    IF Valid(s) # {}
    THEN RMul(RDiv(Num(count(s)), Num(Len(s) - SetMin(Valid(s)) + 1)), Num(100))
    ELSE Num(0)

\* Lines 259-261: completeness = count / rows * 100, 0 for a frame without rows.
Completeness(s) ==
    IF Len(s) > 0 THEN RMul(RDiv(Num(count(s)), Num(Len(s))), Num(100)) ELSE Num(0)

\* Lines 278-302: one dictionary row, without the columns copied from the
\* asset mapping.  BadLabel stands for the 'N/A' of a date column.
DictEntry(s, index, daily_ret_stats) ==
    LET V == Valid(s)
    IN [StartDate     |-> IF V = {} THEN BadLabel ELSE index[SetMin(V)],
        EndDate       |-> IF V = {} THEN BadLabel ELSE index[SetMax(V)],
        DataPoints    |-> Cardinality(V),
        MissingValues |-> Len(s) - Cardinality(V),
        MissingPct    |-> Round(RSub(Num(100), Completeness(s)), 2),
        CompletenessPct |-> Round(Completeness(s), 2),
        PriceMean     |-> IF is_numeric_dtype(s) THEN Round(mean(s), 4) ELSE NotApplicable,
        PriceStdDev   |-> IF is_numeric_dtype(s) THEN RoundRoot(1, var(s), 4) ELSE NotApplicable,
        PriceMin      |-> IF is_numeric_dtype(s) THEN Round(series_min(s), 4) ELSE NotApplicable,
        PriceMax      |-> IF is_numeric_dtype(s) THEN Round(series_max(s), 4) ELSE NotApplicable,
        PriceLast     |-> IF V # {} /\ is_numeric_dtype(s)
                          THEN Round(s[Len(s)], 4) ELSE NotApplicable,
        ReturnStats   |-> daily_ret_stats]

\* A variant without the guard of the date columns: first_valid_index() is
\* None for a ticker without any observation, and None has no strftime.
create_data_dictionary_unguarded(df, daily_returns, monthly_returns, failing, now) ==
    IF df.kind = "None" THEN NoDict
    ELSE IF \/ columns(df) \cap failing # {}
            \/ \E c \in columns(df) : Valid(df.data[c]) = {}
    THEN [kind |-> "Aborted", entries |-> NoEntries, created |-> 0]
    ELSE [kind    |-> IF Len(df.index) = 0 THEN "Raised" ELSE "Dict",
          entries |-> [c \in columns(df) |->
                          DictEntry(df.data[c], df.index, ReturnStats(daily_returns, c))],
          created |-> IF Len(df.index) = 0 THEN 0 ELSE now]

\* create_data_dictionary: None for no frame.  The loop over df.columns
\* (lines 255-304) has no exception handler: for a ticker of `failing` (a
\* label carried by two columns of df, for which df[column] is a DataFrame
\* and str(df[column].dtype) at line 287 raises AttributeError) the exception
\* leaves the function before any entry is returned or written.  After the
\* loop the metadata sheet formats df.index.min(), which raises on a frame
\* without rows (NaT has no strftime); the writer's context manager still
\* saves the sheet written before.  monthly_returns is accepted and not read.
create_data_dictionary(df, daily_returns, monthly_returns, failing, now) ==
    IF df.kind = "None" THEN NoDict
    ELSE IF columns(df) \cap failing # {}
    THEN [kind |-> "Aborted", entries |-> NoEntries, created |-> 0]
    ELSE [kind    |-> IF Len(df.index) = 0 THEN "Raised" ELSE "Dict",
          entries |-> [c \in columns(df) |->
                          DictEntry(df.data[c], df.index, ReturnStats(daily_returns, c))],
          created |-> IF Len(df.index) = 0 THEN 0 ELSE now]

\* ------------------------------------------------------------------ state
VARIABLES
    df,               \* the frame handed to clean_and_standardize
    cleaned,          \* clean_and_standardize(df)
    recleaned,        \* clean_and_standardize(cleaned)
    cstep,            \* how many times the Cleaner has been applied to df
    pc,               \* position of the running entry point
    args,             \* entry point and the arguments of the call
    input_file,       \* the local input_file, once resolved
    source,           \* content of the raw workbook / raw pickle
    fs,               \* files of the output directory and the raw copy
    raw_df, cleaned_df, usd_df, processed_df, daily_returns, monthly_returns,
    data_dict, results,
    calls,            \* stages invoked by this run, in order
    cached,           \* this run took the branch that loads daily_prices.pkl
    runs,             \* runs started so far
    prev,             \* arguments, outcome and results of the previous run
    applied,          \* the stage function that has been applied to df
    fx_mapping,       \* normalize_to_usd: the fx_mapping argument
    normalized,       \* normalize_to_usd(df, fx_mapping=fx_mapping)
    futures_contracts, \* handle_futures_rolls: the futures_contracts argument
    rolled,           \* handle_futures_rolls(df, futures_contracts)
    period,           \* calculate_returns: the period argument
    returns,          \* calculate_returns(df, period)
    failing,          \* tickers whose dictionary statistics cannot be computed
    dict_daily,       \* create_data_dictionary: the daily_returns argument
    dict_monthly,     \* create_data_dictionary: the monthly_returns argument
    dictionary,       \* create_data_dictionary(df, ...)
    heap,             \* the frame objects in memory, by reference (position)
    arg,              \* the reference passed to a stage function
    ret,              \* the reference it returned, 0 for None
    sheet,            \* the workbook handed to the Loader
    loaded,           \* the panel the Loader returned, or None
    mpc,              \* position of main.main
    excel_path,       \* main: the path given on the command line
    disk,             \* main: the workbooks on disk, by path
    attempts,         \* main: the process_excel_file calls made, with results
    success,          \* main: the local success
    reported          \* main: the closing message printed

cleanerVars == <<df, cleaned, recleaned, cstep>>

locals == <<raw_df, cleaned_df, usd_df, processed_df, daily_returns, monthly_returns,
            data_dict, results>>

pipelineVars == <<pc, args, input_file, source, fs, locals, calls, cached, runs, prev>>

heapVars == <<heap, arg, ret>>

loaderVars == <<sheet, loaded>>

mainVars == <<mpc, excel_path, disk, attempts, success, reported>>

stageVars == <<applied, fx_mapping, normalized, futures_contracts, rolled, period,
               returns, failing, dict_daily, dict_monthly, dictionary, heapVars,
               loaderVars, mainVars>>

vars == <<cleanerVars, pipelineVars, stageVars>>

\* A local name that has no binding yet.
Unbound == [kind |-> "Unbound", index |-> <<>>, data |-> NoData]

\* A file, or a key of the results dict, that does not exist.
Absent == [kind |-> "Absent", index |-> <<>>, data |-> NoData]

AbsentDict == [kind |-> "Absent", entries |-> NoEntries, created |-> 0]

UnboundDict == [kind |-> "Unbound", entries |-> NoEntries, created |-> 0]

\* A workbook or pickle that is not there, and one that cannot be read.
Missing == [kind |-> "Missing", index |-> <<>>, data |-> NoData]

Corrupt == [kind |-> "Corrupt", index |-> <<>>, data |-> NoData]

NoArgs == [entry |-> "none", input_file |-> "None", use_existing |-> FALSE]

EmptyResults ==
    [daily_prices |-> Absent, daily_returns |-> Absent, monthly_returns |-> Absent,
     data_dictionary |-> AbsentDict]

EmptyFs ==
    [daily_prices_pkl |-> Absent, daily_prices_xlsx |-> Absent,
     daily_returns_pkl |-> Absent, monthly_returns_pkl |-> Absent,
     data_dictionary_xlsx |-> AbsentDict, raw_copy |-> Absent]

NoPrev == [args |-> NoArgs, pc |-> "none", results |-> EmptyResults]

\* --------------------------------------------------------- Cleaner inputs
Labels == {BadLabel} \cup 0..MaxDay

\* A ticker column of n rows: row k holds 100 + k - 1 where b[k] = 1 and is
\* missing elsewhere.
XColumn(n, b) == [k \in 1..n |-> IF b[k] = 1 THEN Num(100 + k - 1) ELSE NaN]

\* A raw frame with ticker column X and, when blank, a placeholder column.
CleanerFrame(index, x, blank) ==
    Frame(index,
          [c \in (IF blank THEN {"X", "Unnamed: 1"} ELSE {"X"}) |->
              IF c = "X" THEN x ELSE [k \in 1..Len(index) |-> NaN]])

PipelineIdle ==
    /\ pc = "idle"
    /\ args = NoArgs
    /\ input_file = "None"
    /\ source = Missing
    /\ fs = EmptyFs
    /\ raw_df = Unbound /\ cleaned_df = Unbound /\ usd_df = Unbound
    /\ processed_df = Unbound /\ daily_returns = Unbound /\ monthly_returns = Unbound
    /\ data_dict = UnboundDict /\ results = EmptyResults
    /\ calls = <<>> /\ cached = FALSE /\ runs = 0 /\ prev = NoPrev

\* The Loader has not been called: no workbook, no panel.
NoSheet == [readable |-> FALSE, tickers |-> <<>>, fields |-> <<>>, width |-> 0,
            first |-> "none"]

NoPanel == [kind |-> "Unbound", index |-> "none", from |-> "none", columns |-> <<>>]

LoaderIdle == sheet = NoSheet /\ loaded = NoPanel

\* main.main has not been started.
MainIdle ==
    /\ mpc = "idle" /\ excel_path = "" /\ disk = <<>>
    /\ attempts = <<>> /\ success = FALSE /\ reported = "nothing"

\* No stage function has been applied on its own.
StagesIdle ==
    /\ applied = "none"
    /\ fx_mapping = NoData /\ normalized = Unbound
    /\ futures_contracts = {} /\ rolled = Unbound
    /\ period = "D" /\ returns = Unbound
    /\ failing = {} /\ dict_daily = None /\ dict_monthly = None /\ dictionary = UnboundDict
    /\ heap = <<>> /\ arg = 0 /\ ret = 0
    /\ LoaderIdle /\ MainIdle

CleanerIdle == cleaned = Unbound /\ recleaned = Unbound /\ cstep = 0

\* No stage function has been called on a frame object.
HeapIdle == heap = <<>> /\ arg = 0 /\ ret = 0

InitClean ==
    /\ \E n \in 0..MaxLen : \E index \in [1..n -> Labels] : \E b \in [1..n -> {0, 1}] :
          \E blank \in BOOLEAN : df = CleanerFrame(index, XColumn(n, b), blank)
    /\ cleaned = Unbound /\ recleaned = Unbound /\ cstep = 0
    /\ PipelineIdle
    /\ StagesIdle

\* cleaned = clean_and_standardize(df)
CleanOnce ==
    /\ cstep = 0
    /\ cleaned' = clean_and_standardize(df)
    /\ cstep' = 1
    /\ UNCHANGED <<df, recleaned, pipelineVars, stageVars>>

\* recleaned = clean_and_standardize(cleaned), when the first call returned
CleanTwice ==
    /\ cstep = 1
    /\ cleaned.kind # "Raised"
    /\ recleaned' = clean_and_standardize(cleaned)
    /\ cstep' = 2
    /\ UNCHANGED <<df, cleaned, pipelineVars, stageVars>>

NextClean == CleanOnce \/ CleanTwice

SpecClean == InitClean /\ [][NextClean]_vars

\* ------------------------------------------------------- Cleaner: claims
\* The cell of column c at date d (d is a label of the unique index of f).
Cell(f, c, d) == f.data[c][CHOOSE i \in 1..Len(f.index) : f.index[i] = d]

\* The value of column c at the latest date of f that is before d, belongs to
\* `dates` and holds a value; missing when there is none.
LastKnown(f, c, d, dates) ==
    LET J == {j \in 1..Len(f.index) :
                 f.index[j] < d /\ f.index[j] \in dates /\ ~isna(f.data[c][j])}
    IN IF J = {} THEN NaN
       ELSE f.data[c][CHOOSE j \in J : \A i \in J : f.index[i] <= f.index[j]]

AllDays == 0..MaxDay

BusinessDays == {d \in AllDays : Weekday(d) \in 0..4}

StrictlyIncreasing(index) == \A i \in 1..Len(index) - 1 : index[i] < index[i + 1]

\* The Cleaner returned a panel for a non-empty date index.
CleanedPanel ==
    /\ cstep >= 1
    /\ cleaned.kind = "Frame"
    /\ Len(df.index) > 0
    /\ IsDateIndex(df.index)

\* The returned index is exactly the Monday-Friday dates from the input's
\* minimum to its maximum date, in increasing order.
BusinessDayIndex ==
    /\ StrictlyIncreasing(cleaned.index)
    /\ SeqToSet(cleaned.index) =
          {d \in SetMin(SeqToSet(df.index))..SetMax(SeqToSet(df.index)) : d \in BusinessDays}

AbsentDates == SeqToSet(cleaned.index) \ SeqToSet(df.index)

C7_Idempotent ==
    (cstep = 2 /\ cleaned.kind = "Frame") => recleaned = cleaned

\* C7 witness: the first cleaning filled a gap and the second returned the
\* same panel.
C7_Witness ==
    /\ cstep = 2
    /\ CleanedPanel
    /\ \E c \in columns(cleaned) : \E d \in AbsentDates : ~isna(Cell(cleaned, c, d))
    /\ recleaned = cleaned

\* The dates at which column c of the input holds a value.
ObservedDates(c) == {df.index[j] : j \in {i \in 1..Len(df.index) : ~isna(df.data[c][i])}}

\* C8: every output cell dated strictly before the ticker's first non-missing
\* input observation is missing; a ticker never observed stays all missing.
C8_NoPreHistory ==
    CleanedPanel =>
        \A c \in columns(cleaned) : \A k \in 1..Len(cleaned.index) :
            (\A o \in ObservedDates(c) : cleaned.index[k] < o) => isna(cleaned.data[c][k])

\* C8 witness: a returned panel with a missing cell before a ticker's first
\* observation, which itself is in the panel.
C8_Witness ==
    /\ CleanedPanel
    /\ \E c \in columns(cleaned) : \E k \in 1..Len(cleaned.index) :
          /\ ObservedDates(c) # {}
          /\ \A o \in ObservedDates(c) : cleaned.index[k] < o
          /\ isna(cleaned.data[c][k])
          /\ \E o \in ObservedDates(c) : o \in SeqToSet(cleaned.index)

\* Scenario A: dates Mon 29, Tue 30 January and Thu 1 February (days 3, 4, 6),
\* ticker X = [100, 101, NaN], cleaned.
ScenarioA ==
    /\ cstep >= 1
    /\ df.index = <<3, 4, 6>>
    /\ df.data["X"] = <<Num(100), Num(101), NaN>>

\* C9 as stated: in Scenario A the cleaned panel has Wed = 101 and Thu = 103.
C9_ThursdayIs103 ==
    ScenarioA =>
        /\ cleaned.kind = "Frame"
        /\ Cell(cleaned, "X", 5) = Num(101)
        /\ Cell(cleaned, "X", 6) = Num(103)

\* C9 amended: in Scenario A the cleaned panel has Wed = 101 and Thu = 101,
\* both forward-filled from Tue.
C9_ThursdayIs101 ==
    ScenarioA =>
        /\ cleaned.kind = "Frame"
        /\ cleaned.index = <<3, 4, 5, 6>>
        /\ Cell(cleaned, "X", 5) = Num(101)
        /\ Cell(cleaned, "X", 6) = Num(101)

\* C9 witness: Scenario A has been cleaned.
C9_Witness == ScenarioA /\ cleaned.kind = "Frame" /\ Len(cleaned.index) = 4

\* C10 as stated: the Cleaner accepts every date index, unsorted and
\* duplicate-containing ones included, and returns without raising a panel
\* whose dates are strictly increasing and unique.
C10_AnyDateIndexAccepted ==
    (cstep >= 1 /\ IsDateIndex(df.index)) =>
        /\ cleaned.kind = "Frame"
        /\ StrictlyIncreasing(cleaned.index)

\* ------------------------------------------------------ pipeline: inputs
\* Labels of the raw workbooks the entry points run on: an unparsable one,
\* Sat 27 Jan, Mon 29 Jan, Thu 1 Feb.
PipelineLabels == {BadLabel, 1, 3, 6}

\* A raw workbook: NKY in yen (row k missing or 30000 k), its FX rate and a
\* futures contract.
RawWorkbook(index, nky) ==
    Frame(index,
          [c \in {"NKY Index", "USDJPY Curncy", "CO1 Comdty"} |->
              [k \in 1..Len(index) |->
                  IF c = "NKY Index" THEN (IF nky[k] = 1 THEN Num(30000 * k) ELSE NaN)
                  ELSE IF c = "USDJPY Curncy" THEN Num(150)
                  ELSE Num(80 + 6 * (k - 1))]])

\* The workbook is missing, unreadable, or holds 1..MaxRows rows.
IsSource(src) ==
    \/ src \in {Missing, Corrupt}
    \/ \E n \in 1..MaxRows : \E index \in [1..n -> PipelineLabels] :
          \E nky \in [1..n -> {0, 1}] : src = RawWorkbook(index, nky)

InputFiles ==
    {"None", "data/raw/all_assets.xlsx", "./data/raw/all_assets.xlsx", "inbox/prices.xlsx"}

Entries ==
    [entry : {"run_data_pipeline"}, input_file : InputFiles, use_existing : BOOLEAN]
    \cup {[entry |-> "script", input_file |-> "None", use_existing |-> FALSE]}

\* os.path.join('data/raw', os.path.basename(input_file))
RawOutput(path) ==
    IF path = "inbox/prices.xlsx" THEN "data/raw/prices.xlsx" ELSE "data/raw/all_assets.xlsx"

\* load_raw_data: the frame read from the workbook, None when reading raises.
load_raw_data(src) == IF src.kind = "Frame" THEN src ELSE None

\* The two paths name one file of the working directory.
SameFile(p, q) ==
    LET normpath(x) == IF x = "./data/raw/all_assets.xlsx" THEN "data/raw/all_assets.xlsx"
                       ELSE x
    IN normpath(p) = normpath(q)

\* What load_raw_data reads from a workbook that df.to_excel(path) wrote: the
\* sheet is one line of column labels and one line per row of df, and
\* skiprows skips more lines than a frame of up to MaxRows rows fills, so
\* pd.read_excel finds no data and returns an empty frame.
to_excel(frame) == Frame(<<>>, NoData)

\* Line 447: raw_output != input_file, a comparison of the two strings.
raw_copy_wanted(raw_output, path) == raw_output # path

Init ==
    /\ df = None /\ cleaned = Unbound /\ recleaned = Unbound /\ cstep = 0
    /\ pc = "idle"
    /\ args = NoArgs
    /\ input_file = "None"
    /\ IsSource(source)
    /\ fs = EmptyFs
    /\ raw_df = Unbound /\ cleaned_df = Unbound /\ usd_df = Unbound
    /\ processed_df = Unbound /\ daily_returns = Unbound /\ monthly_returns = Unbound
    /\ data_dict = UnboundDict /\ results = EmptyResults
    /\ calls = <<>> /\ cached = FALSE /\ runs = 0 /\ prev = NoPrev
    /\ StagesIdle

\* ----------------------------------------------------- run_data_pipeline
\* An entry point is started with arguments a.
Call(a) ==
    /\ pc = "idle"
    /\ runs < MaxRuns
    /\ args' = a
    /\ input_file' = a.input_file
    /\ pc' = IF a.entry = "script" THEN "s_load" ELSE "check"
    /\ raw_df' = Unbound /\ cleaned_df' = Unbound /\ usd_df' = Unbound
    /\ processed_df' = Unbound /\ daily_returns' = Unbound /\ monthly_returns' = Unbound
    /\ data_dict' = UnboundDict /\ results' = EmptyResults
    /\ calls' = <<>> /\ cached' = FALSE
    /\ runs' = runs + 1
    /\ UNCHANGED <<source, fs, prev, cleanerVars, stageVars>>

\* Lines 398-439: reuse daily_prices.pkl (and the returns files) when allowed
\* and present, else resolve the input file.
CheckExisting ==
    /\ pc = "check"
    /\ IF args.use_existing /\ fs.daily_prices_pkl.kind # "Absent"
       THEN /\ processed_df' = fs.daily_prices_pkl
            /\ daily_returns' = IF fs.daily_returns_pkl.kind # "Absent"
                                THEN fs.daily_returns_pkl ELSE None
            /\ monthly_returns' = IF fs.monthly_returns_pkl.kind # "Absent"
                                  THEN fs.monthly_returns_pkl ELSE None
            /\ cached' = TRUE
            /\ pc' = "clean"
            /\ UNCHANGED input_file
       ELSE /\ IF input_file = "None"
               THEN IF source.kind = "Missing"
                    THEN pc' = "raised" /\ UNCHANGED input_file
                    ELSE pc' = "load" /\ input_file' = "data/raw/all_assets.xlsx"
               ELSE pc' = "load" /\ UNCHANGED input_file
            /\ UNCHANGED <<processed_df, daily_returns, monthly_returns, cached>>
    /\ UNCHANGED <<args, source, fs, raw_df, cleaned_df, usd_df, data_dict, results,
                   calls, runs, prev, cleanerVars, stageVars>>

\* Lines 441-448: load the raw workbook and save a copy of it under data/raw.
LoadRaw ==
    /\ pc = "load"
    /\ raw_df' = load_raw_data(source)
    /\ LET saved == /\ raw_df'.kind # "None"
                    /\ raw_copy_wanted(RawOutput(input_file), input_file)
       IN /\ fs' = IF saved THEN [fs EXCEPT !.raw_copy = raw_df'] ELSE fs
          /\ source' = IF saved /\ SameFile(RawOutput(input_file), input_file)
                       THEN to_excel(raw_df')
                       ELSE source
    /\ pc' = "clean"
    /\ UNCHANGED <<args, input_file, cleaned_df, usd_df, processed_df,
                   daily_returns, monthly_returns, data_dict, results, calls, cached,
                   runs, prev, cleanerVars, stageVars>>

\* Line 451: cleaned_df = clean_and_standardize(raw_df); raw_df has no binding
\* on the branch that loaded daily_prices.pkl, so reading it raises.
Clean ==
    /\ pc = "clean"
    /\ IF raw_df.kind = "Unbound"
       THEN pc' = "raised" /\ UNCHANGED <<cleaned_df, calls>>
       ELSE LET r == clean_and_standardize(raw_df)
            IN /\ calls' = Append(calls, "clean_and_standardize")
               /\ IF r.kind = "Raised"
                  THEN pc' = "raised" /\ UNCHANGED cleaned_df
                  ELSE pc' = "normalize" /\ cleaned_df' = r
    /\ UNCHANGED <<args, input_file, source, fs, raw_df, usd_df, processed_df,
                   daily_returns, monthly_returns, data_dict, results, cached, runs,
                   prev, cleanerVars, stageVars>>

\* Line 454
Normalize ==
    /\ pc = "normalize"
    /\ usd_df' = normalize_to_usd(cleaned_df, DefaultFxMapping)
    /\ calls' = Append(calls, "normalize_to_usd")
    /\ pc' = "rolls"
    /\ UNCHANGED <<args, input_file, source, fs, raw_df, cleaned_df, processed_df,
                   daily_returns, monthly_returns, data_dict, results, cached, runs,
                   prev, cleanerVars, stageVars>>

\* Line 456
Rolls ==
    /\ pc = "rolls"
    /\ processed_df' = handle_futures_rolls(usd_df, DefaultFuturesContracts)
    /\ calls' = Append(calls, "handle_futures_rolls")
    /\ pc' = "returns"
    /\ UNCHANGED <<args, input_file, source, fs, raw_df, cleaned_df, usd_df,
                   daily_returns, monthly_returns, data_dict, results, cached, runs,
                   prev, cleanerVars, stageVars>>

\* Lines 459-460
Returns ==
    /\ pc = "returns"
    /\ daily_returns' = calculate_returns(processed_df, "D")
    /\ monthly_returns' = calculate_returns(processed_df, "M")
    /\ calls' = calls \o <<"calculate_returns D", "calculate_returns M">>
    /\ pc' = "save"
    /\ UNCHANGED <<args, input_file, source, fs, raw_df, cleaned_df, usd_df,
                   processed_df, data_dict, results, cached, runs, prev, cleanerVars, stageVars>>

\* save_processed_data without the guard of lines 348-349.
Saved_unguarded(old, frame) == frame

\* save_processed_data(frame, path) on a file of fs: nothing for None.
Saved(old, frame) == IF frame.kind = "None" THEN old ELSE frame

\* results[key] = frame, under `if frame is not None`
Kept(frame) == IF frame.kind = "None" THEN Absent ELSE frame

\* Lines 463-485: save the price panel and both return series.
Save ==
    /\ pc = "save"
    /\ fs' = [fs EXCEPT !.daily_prices_pkl = Saved(@, processed_df),
                        !.daily_prices_xlsx = Saved(@, processed_df),
                        !.daily_returns_pkl = Saved(@, daily_returns),
                        !.monthly_returns_pkl = Saved(@, monthly_returns)]
    /\ results' = [results EXCEPT !.daily_prices = Kept(processed_df),
                                  !.daily_returns = Kept(daily_returns),
                                  !.monthly_returns = Kept(monthly_returns)]
    /\ pc' = "dictionary"
    /\ UNCHANGED <<args, input_file, source, raw_df, cleaned_df, usd_df, processed_df,
                   daily_returns, monthly_returns, data_dict, calls, cached, runs,
                   prev, cleanerVars, stageVars>>

\* Lines 488-495: build the dictionary; the clock read is the run number.
Dictionary ==
    /\ pc = "dictionary"
    /\ LET d == create_data_dictionary(processed_df, daily_returns, monthly_returns, {}, runs)
       IN /\ calls' = Append(calls, "create_data_dictionary")
          /\ fs' = IF d.kind \in {"None", "Aborted"} THEN fs
                   ELSE [fs EXCEPT !.data_dictionary_xlsx = d]
          /\ IF d.kind \in {"Raised", "Aborted"}
             THEN pc' = "raised" /\ UNCHANGED <<data_dict, results>>
             ELSE /\ pc' = "finish"
                  /\ data_dict' = d
                  /\ results' = [results EXCEPT !.data_dictionary = d]
    /\ UNCHANGED <<args, input_file, source, raw_df, cleaned_df, usd_df, processed_df,
                   daily_returns, monthly_returns, cached, runs, prev, cleanerVars, stageVars>>

\* Lines 497-506: report completion and return results.
Finish ==
    /\ pc = "finish"
    /\ pc' = "done"
    /\ UNCHANGED <<args, input_file, source, fs, locals, calls, cached, runs, prev,
                   cleanerVars, stageVars>>

\* The run is over (returned or raised); the next one may start.
Return ==
    /\ pc \in {"done", "raised"}
    /\ runs < MaxRuns
    /\ prev' = [args |-> args, pc |-> pc, results |-> results]
    /\ pc' = "idle"
    /\ UNCHANGED <<args, input_file, source, fs, locals, calls, cached, runs,
                   cleanerVars, stageVars>>

\* ------------------------------------------------- script entry (__main__)
\* df.loc[:, ~df.columns.str.contains("^Unnamed")]
drop_unnamed(f) == Frame(f.index, [c \in {x \in columns(f) : ~IsUnnamed(x)} |-> f.data[c]])

\* Lines 530-539: read data/raw/all_assets.pkl; a missing or unreadable pickle
\* raises, and the handler of line 578 exits with status 1.
ScriptLoad ==
    /\ pc = "s_load"
    /\ IF source.kind # "Frame"
       THEN pc' = "raised" /\ UNCHANGED raw_df
       ELSE pc' = "s_clean" /\ raw_df' = drop_unnamed(source)
    /\ UNCHANGED <<args, input_file, source, fs, cleaned_df, usd_df, processed_df,
                   daily_returns, monthly_returns, data_dict, results, calls, cached,
                   runs, prev, cleanerVars, stageVars>>

\* Line 544
ScriptClean ==
    /\ pc = "s_clean"
    /\ LET r == clean_and_standardize(raw_df)
       IN /\ calls' = Append(calls, "clean_and_standardize")
          /\ IF r.kind = "Raised"
             THEN pc' = "raised" /\ UNCHANGED cleaned_df
             ELSE pc' = "s_normalize" /\ cleaned_df' = r
    /\ UNCHANGED <<args, input_file, source, fs, raw_df, usd_df, processed_df,
                   daily_returns, monthly_returns, data_dict, results, cached, runs,
                   prev, cleanerVars, stageVars>>

\* Line 547
ScriptNormalize ==
    /\ pc = "s_normalize"
    /\ usd_df' = normalize_to_usd(cleaned_df, DefaultFxMapping)
    /\ calls' = Append(calls, "normalize_to_usd")
    /\ pc' = "s_returns"
    /\ UNCHANGED <<args, input_file, source, fs, raw_df, cleaned_df, processed_df,
                   daily_returns, monthly_returns, data_dict, results, cached, runs,
                   prev, cleanerVars, stageVars>>

\* Lines 550-551: the returns are computed from the USD panel.
ScriptReturns ==
    /\ pc = "s_returns"
    /\ daily_returns' = calculate_returns(usd_df, "D")
    /\ monthly_returns' = calculate_returns(usd_df, "M")
    /\ calls' = calls \o <<"calculate_returns D", "calculate_returns M">>
    /\ pc' = "s_save"
    /\ UNCHANGED <<args, input_file, source, fs, raw_df, cleaned_df, usd_df,
                   processed_df, data_dict, results, cached, runs, prev, cleanerVars, stageVars>>

\* Lines 555-558: the USD panel is saved as the price panel.
ScriptSave ==
    /\ pc = "s_save"
    /\ fs' = [fs EXCEPT !.daily_prices_pkl = Saved(@, usd_df),
                        !.daily_prices_xlsx = Saved(@, usd_df),
                        !.daily_returns_pkl = Saved(@, daily_returns),
                        !.monthly_returns_pkl = Saved(@, monthly_returns)]
    /\ pc' = "s_dictionary"
    /\ UNCHANGED <<args, input_file, source, locals, calls, cached, runs, prev,
                   cleanerVars, stageVars>>

\* Lines 562-580: build the dictionary and report success, or exit 1.
ScriptDictionary ==
    /\ pc = "s_dictionary"
    /\ LET d == create_data_dictionary(usd_df, daily_returns, monthly_returns, {}, runs)
       IN /\ calls' = Append(calls, "create_data_dictionary")
          /\ fs' = IF d.kind \in {"None", "Aborted"} THEN fs
                   ELSE [fs EXCEPT !.data_dictionary_xlsx = d]
          /\ pc' = IF d.kind \in {"Raised", "Aborted"} THEN "raised" ELSE "done"
          /\ data_dict' = IF d.kind \in {"Raised", "Aborted"} THEN data_dict ELSE d
    /\ UNCHANGED <<args, input_file, source, raw_df, cleaned_df, usd_df, processed_df,
                   daily_returns, monthly_returns, results, cached, runs, prev,
                   cleanerVars, stageVars>>

Next ==
    \/ \E a \in Entries : Call(a)
    \/ CheckExisting
    \/ LoadRaw
    \/ Clean
    \/ Normalize
    \/ Rolls
    \/ Returns
    \/ Save
    \/ Dictionary
    \/ Finish
    \/ Return
    \/ ScriptLoad
    \/ ScriptClean
    \/ ScriptNormalize
    \/ ScriptReturns
    \/ ScriptSave
    \/ ScriptDictionary

Spec == Init /\ [][Next]_vars

\* ------------------------------------------------------ pipeline: claims
Ended == pc \in {"done", "raised"}

PanelStages == {"clean_and_standardize", "normalize_to_usd", "handle_futures_rolls"}

Invoked(stage) == \E i \in 1..Len(calls) : calls[i] = stage

Times(stage) == Cardinality({i \in 1..Len(calls) : calls[i] = stage})

\* The raw workbook is structurally valid: readable, indexed by strictly
\* increasing dates of which at least one is a business day.
ValidSource ==
    /\ source.kind = "Frame"
    /\ IsDateIndex(source.index)
    /\ StrictlyIncreasing(source.index)
    /\ \E i \in 1..Len(source.index) : IsBusinessDay(source.index[i])

\* C1: a run of run_data_pipeline that finds daily_prices.pkl with reuse
\* permitted invokes none of the three panel stages, and the panel it loaded
\* is the final price panel the run returns.
C1_CachedRunReturnsLoadedPanel ==
    cached =>
        /\ \A stage \in PanelStages : ~Invoked(stage)
        /\ Ended => /\ pc = "done"
                    /\ results.daily_prices = fs.daily_prices_pkl
                    /\ results.daily_prices = processed_df

\* C2: on structurally valid data a run of run_data_pipeline, cached or full,
\* ends only after building the dictionary with all four artifacts persisted.
C2_RunPersistsAllArtifacts ==
    (args.entry = "run_data_pipeline" /\ ValidSource /\ Ended) =>
        /\ pc = "done"
        /\ Invoked("create_data_dictionary")
        /\ fs.daily_prices_pkl.kind = "Frame"
        /\ fs.daily_returns_pkl.kind = "Frame"
        /\ fs.monthly_returns_pkl.kind = "Frame"
        /\ fs.data_dictionary_xlsx.kind = "Dict"

\* C3: two successive runs of run_data_pipeline with the same arguments on the
\* same valid workbook both complete, with identical price panel, daily
\* returns and monthly returns.
C3_RepeatedRunsAgree ==
    (runs = 2 /\ Ended /\ args.entry = "run_data_pipeline" /\ prev.args = args
        /\ ValidSource) =>
        /\ pc = "done"
        /\ prev.pc = "done"
        /\ results.daily_prices = prev.results.daily_prices
        /\ results.daily_returns = prev.results.daily_returns
        /\ results.monthly_returns = prev.results.monthly_returns

\* C4: a completed execution that derived its price panel from raw data, from
\* either entry point, invoked Cleaner, CurrencyNormalizer and
\* FuturesRollHandler once each in that order, each on the previous output,
\* and saved returns computed from the FuturesRollHandler output.
C4_ThreeStagesInOrder ==
    (pc = "done" /\ raw_df.kind = "Frame" /\ cleaned_df.kind = "Frame") =>
        /\ Len(calls) >= 3
        /\ SubSeq(calls, 1, 3) =
              <<"clean_and_standardize", "normalize_to_usd", "handle_futures_rolls">>
        /\ \A stage \in PanelStages : Times(stage) = 1
        /\ cleaned_df = clean_and_standardize(raw_df)
        /\ usd_df = normalize_to_usd(cleaned_df, DefaultFxMapping)
        /\ fs.daily_prices_pkl = handle_futures_rolls(usd_df, DefaultFuturesContracts)
        /\ fs.daily_returns_pkl = calculate_returns(fs.daily_prices_pkl, "D")
        /\ fs.monthly_returns_pkl = calculate_returns(fs.daily_prices_pkl, "M")

\* Raw ingestion failed, or the loaded index cannot be read as dates.
IngestionOrIndexFailure ==
    \/ raw_df.kind = "None"
    \/ raw_df.kind = "Frame" /\ ~IsDateIndex(raw_df.index)

\* C5: after a failed ingestion or an index the Cleaner cannot interpret, a
\* run of run_data_pipeline aborts: no later stage is invoked, nothing is
\* returned, completion is not reported.
C5_FailureAbortsRun ==
    (args.entry = "run_data_pipeline" /\ IngestionOrIndexFailure) =>
        /\ ~Invoked("normalize_to_usd")
        /\ ~Invoked("create_data_dictionary")
        /\ pc # "done"
        /\ results = EmptyResults

\* ------------------------------------------- CurrencyNormalizer on its own
\* normalize_to_usd applied to a panel of two local-currency tickers, one
\* dollar ticker and any of three FX tickers, under every table that maps
\* the local-currency tickers to FX tickers, and under the default table.
MaxObs == 2

FxTickers == {"USDJPY Curncy", "JPY Curncy", "JPYUSD Curncy"}

LocalTickers == {"NKY Index", "PCOMP Index"}

FxTables ==
    {DefaultFxMapping} \cup UNION {[K -> FxTickers] : K \in SUBSET LocalTickers}

\* Row k of the panel is business day k + 2 (Monday 29 January 2024 on).
FxPanel(n, nky, fx, F) ==
    Frame([k \in 1..n |-> k + 2],
          [c \in LocalTickers \cup {"SPX Index"} \cup F |->
              [k \in 1..n |->
                  IF c = "NKY Index" THEN (IF nky[k] THEN Num(30000 * k) ELSE NaN)
                  ELSE IF c = "PCOMP Index" THEN Num(6000 + 300 * k)
                  ELSE IF c = "SPX Index" THEN Num(5000 + k)
                  ELSE IF fx[k] THEN Num(150) ELSE NaN]])

InitNormalize ==
    /\ \E n \in 1..MaxObs : \E nky \in [1..n -> BOOLEAN] : \E fx \in [1..n -> BOOLEAN] :
           \E F \in SUBSET FxTickers : df = FxPanel(n, nky, fx, F)
    /\ fx_mapping \in FxTables
    /\ applied = "none" /\ normalized = Unbound
    /\ futures_contracts = {} /\ rolled = Unbound
    /\ period = "D" /\ returns = Unbound
    /\ failing = {} /\ dict_daily = None /\ dict_monthly = None /\ dictionary = UnboundDict
    /\ CleanerIdle
    /\ HeapIdle /\ LoaderIdle /\ MainIdle
    /\ PipelineIdle

ApplyNormalize ==
    /\ applied = "none"
    /\ applied' = "normalize_to_usd"
    /\ normalized' = normalize_to_usd(df, fx_mapping)
    /\ UNCHANGED <<cleanerVars, pipelineVars, heapVars, loaderVars, mainVars,
                   fx_mapping, futures_contracts, rolled,
                   period, returns, failing, dict_daily, dict_monthly, dictionary>>

NextNormalize == ApplyNormalize

SpecNormalize == InitNormalize /\ [][NextNormalize]_vars

\* The declared tickers of the call whose FX ticker is a column.
Converted == {c \in columns(df) \cap DOMAIN fx_mapping : fx_mapping[c] \in columns(df)}

Normalized == applied = "normalize_to_usd"

Divided(c) ==
    \A k \in 1..Len(df.index) :
        normalized.data[c][k] = RDiv(df.data[c][k], df.data[fx_mapping[c]][k])

Multiplied(c) ==
    \A k \in 1..Len(df.index) :
        normalized.data[c][k] = RMul(df.data[c][k], df.data[fx_mapping[c]][k])

\* C11: after normalize_to_usd, every declared ticker whose FX ticker is a
\* column holds local price / same-date FX rate in every cell when its FX
\* ticker is quoted USD-base, and local price * FX rate when it is quoted
\* foreign-base.
C11_ConvertedByConvention ==
    Normalized =>
        \A c \in Converted :
            IF Convention(fx_mapping[c]) = "USD-base" THEN Divided(c) ELSE Multiplied(c)

\* C12: after normalize_to_usd, the panel has the same dates and columns,
\* and every column with no declared FX relationship, and every declared
\* column whose FX ticker is not a column, holds its input cells.
C12_OthersUnchanged ==
    Normalized =>
        /\ normalized.index = df.index
        /\ columns(normalized) = columns(df)
        /\ \A c \in columns(df) \ Converted : normalized.data[c] = df.data[c]

\* A call with an undeclared column, a declared column whose FX ticker is
\* absent and a converted column, whose result differs from its input.
C12_Witness ==
    /\ Normalized
    /\ "NKY Index" \in Converted
    /\ "PCOMP Index" \in DOMAIN fx_mapping /\ "PCOMP Index" \notin Converted
    /\ "SPX Index" \notin DOMAIN fx_mapping
    /\ normalized # df
    /\ normalized.data["PCOMP Index"] = df.data["PCOMP Index"]

\* C13: after normalize_to_usd, two converted tickers whose FX tickers have
\* the same quote convention are treated alike (both divided or both
\* multiplied), whatever the FX tickers are called.
C13_SameConventionTreatedAlike ==
    Normalized =>
        \A c1, c2 \in Converted :
            Convention(fx_mapping[c1]) = Convention(fx_mapping[c2]) =>
                \/ Divided(c1) /\ Divided(c2)
                \/ Multiplied(c1) /\ Multiplied(c2)

\* C14: after normalize_to_usd, a converted cell is missing whenever the
\* local price or the FX rate of that date is missing.
C14_MissingStaysMissing ==
    Normalized =>
        \A c \in Converted : \A k \in 1..Len(df.index) :
            (isna(df.data[c][k]) \/ isna(df.data[fx_mapping[c]][k])) =>
                isna(normalized.data[c][k])

\* A converted ticker with a price but no FX rate on one date, a rate but no
\* price on another, and a second converted ticker that has a number.
C14_Witness ==
    /\ Normalized
    /\ "NKY Index" \in Converted /\ "PCOMP Index" \in Converted
    /\ \E k \in 1..Len(df.index) :
           /\ ~isna(df.data["NKY Index"][k])
           /\ isna(df.data[fx_mapping["NKY Index"]][k])
           /\ isna(normalized.data["NKY Index"][k])
    /\ \E k \in 1..Len(df.index) :
           /\ isna(df.data["NKY Index"][k])
           /\ ~isna(df.data[fx_mapping["NKY Index"]][k])
           /\ isna(normalized.data["NKY Index"][k])

\* ------------------------------------------- FuturesRollHandler on its own
\* handle_futures_rolls applied to a panel of one futures ticker and one
\* equity index over consecutive business days, each futures cell missing or
\* one of two prices, under the default contract list and under a list that
\* names no column of the panel.
MaxRoll == 4

FuturesPrices == {NaN, Num(60), Num(90)}

ContractLists == {DefaultFuturesContracts, {"GOLDS Index"}}

\* Business day k of a run of consecutive business days from Monday 29
\* January 2024 (day 3): five days a week, every weekend skipped.
BusinessDay(k) == k + 2 + 2 * ((k - 1) \div 5)

RollPanel(co1) ==
    Frame([k \in 1..Len(co1) |-> BusinessDay(k)],
          [c \in {"CO1 Comdty", "SPX Index"} |->
              IF c = "CO1 Comdty" THEN co1
              ELSE [k \in 1..Len(co1) |-> Num(5000 + k)]])

InitRolls ==
    /\ \E n \in 1..MaxRoll : \E co1 \in [1..n -> FuturesPrices] : df = RollPanel(co1)
    /\ futures_contracts \in ContractLists
    /\ applied = "none" /\ rolled = Unbound
    /\ fx_mapping = NoData /\ normalized = Unbound
    /\ period = "D" /\ returns = Unbound
    /\ failing = {} /\ dict_daily = None /\ dict_monthly = None /\ dictionary = UnboundDict
    /\ CleanerIdle
    /\ HeapIdle /\ LoaderIdle /\ MainIdle
    /\ PipelineIdle

ApplyRolls ==
    /\ applied = "none"
    /\ applied' = "handle_futures_rolls"
    /\ rolled' = handle_futures_rolls(df, futures_contracts)
    /\ UNCHANGED <<cleanerVars, pipelineVars, heapVars, loaderVars, mainVars,
                   fx_mapping, normalized, futures_contracts,
                   period, returns, failing, dict_daily, dict_monthly, dictionary>>

NextRolls == ApplyRolls

SpecRolls == InitRolls /\ [][NextRolls]_vars

Rolled == applied = "handle_futures_rolls"

\* The cell of series s at row k, missing before the first row.
At(s, k) == IF k >= 1 THEN s[k] ELSE NaN

Observed(v) == IF isna(v) THEN 0 ELSE 1

OrZero(v) == IF isna(v) THEN Num(0) ELSE v

\* The mean of the observations among three cells, missing without any.
MeanOfObserved(a, b, c) ==
    IF Observed(a) + Observed(b) + Observed(c) = 0 THEN NaN
    ELSE RDiv(RAdd(OrZero(a), RAdd(OrZero(b), OrZero(c))),
              Num(Observed(a) + Observed(b) + Observed(c)))

\* C15: after handle_futures_rolls, every declared futures ticker of the
\* panel holds, at each row, the mean of the observations among that row and
\* the two rows before it (so the first row is unchanged and the second row
\* of a column observed on both is the mean of the two values), and every
\* other column holds its input cells, on the same dates.
C15_TrailingMeanOfThree ==
    Rolled =>
        /\ rolled.index = df.index
        /\ columns(rolled) = columns(df)
        /\ \A c \in columns(df) \ futures_contracts : rolled.data[c] = df.data[c]
        /\ \A c \in columns(df) \cap futures_contracts :
               LET s == df.data[c]
               IN /\ rolled.data[c][1] = s[1]
                  /\ \A k \in 1..Len(s) :
                         rolled.data[c][k] = MeanOfObserved(At(s, k), At(s, k - 1), At(s, k - 2))
                  /\ (Len(s) >= 2 /\ ~isna(s[1]) /\ ~isna(s[2])) =>
                         rolled.data[c][2] = RDiv(RAdd(s[1], s[2]), Num(2))

\* A declared futures ticker observed on four days, whose fourth mean leaves
\* the first day out, next to an equity index that is left as it was.
C15_Witness ==
    /\ Rolled
    /\ "CO1 Comdty" \in futures_contracts
    /\ Len(df.index) >= 4
    /\ df.data["CO1 Comdty"][1] = Num(60) /\ df.data["CO1 Comdty"][2] = Num(90)
    /\ df.data["CO1 Comdty"][3] = Num(90) /\ df.data["CO1 Comdty"][4] = Num(90)
    /\ rolled.data["CO1 Comdty"][1] = Num(60)
    /\ rolled.data["CO1 Comdty"][2] = Num(75)
    /\ rolled.data["CO1 Comdty"][3] = Num(80)
    /\ rolled.data["CO1 Comdty"][4] = Num(90)
    /\ rolled.data["SPX Index"] = df.data["SPX Index"]

\* -------------------------------------------- ReturnsCalculator on its own
\* calculate_returns applied to no panel, or to a panel of two tickers with
\* any pattern of missing cells, on consecutive business days or on dates
\* spread over three calendar months, under supported and unsupported period
\* selectors.
MaxPrices == 4

Periods == {"D", "d", "M", "m", "W"}

\* Wednesday 31 January, Thursday 1 February, Thursday 29 February, Friday 1
\* March, Monday 4 March 2024.
SparseDate(k) ==
    IF k = 1 THEN 5 ELSE IF k = 2 THEN 6 ELSE IF k = 3 THEN 34 ELSE 35 + 3 * (k - 4)

SpxPrices == {NaN, Num(100), Num(110)}

NkyPrices == {NaN, Num(200)}

PricePanel(sparse, spx, nky) ==
    Frame([k \in 1..Len(spx) |-> IF sparse THEN SparseDate(k) ELSE BusinessDay(k)],
          [c \in {"SPX Index", "NKY Index"} |-> IF c = "SPX Index" THEN spx ELSE nky])

InitReturns ==
    /\ \/ df = None
       \/ \E n \in 1..MaxPrices : \E spx \in [1..n -> SpxPrices] : \E nky \in [1..n -> NkyPrices] :
              \E sparse \in BOOLEAN : df = PricePanel(sparse, spx, nky)
    /\ period \in Periods
    /\ applied = "none" /\ returns = Unbound
    /\ fx_mapping = NoData /\ normalized = Unbound
    /\ futures_contracts = {} /\ rolled = Unbound
    /\ failing = {} /\ dict_daily = None /\ dict_monthly = None /\ dictionary = UnboundDict
    /\ CleanerIdle
    /\ HeapIdle /\ LoaderIdle /\ MainIdle
    /\ PipelineIdle

ApplyReturns ==
    /\ applied = "none"
    /\ applied' = "calculate_returns"
    /\ returns' = calculate_returns(df, period)
    /\ UNCHANGED <<cleanerVars, pipelineVars, heapVars, loaderVars, mainVars,
                   fx_mapping, normalized, futures_contracts,
                   rolled, period, failing, dict_daily, dict_monthly, dictionary>>

NextReturns == ApplyReturns

SpecReturns == InitReturns /\ [][NextReturns]_vars

Returned == applied = "calculate_returns"

\* (p_t - p_{t-1}) / p_{t-1}
SimpleReturn(prev_price, price) == RDiv(RSub(price, prev_price), prev_price)

\* The position of a date in an index, 0 when it is not there.
PositionOf(index, d) ==
    IF \E j \in 1..Len(index) : index[j] = d
    THEN CHOOSE j \in 1..Len(index) : index[j] = d
    ELSE 0

\* C16: calculate_returns(panel, daily) returns a frame over the panel's
\* dates without the first one, with the panel's columns, for every panel
\* (missing cells or not); a cell whose two prices are observed is
\* (p_t - p_{t-1}) / p_{t-1}.
C16_DailyDropsFirstRowOnly ==
    (Returned /\ df.kind = "Frame" /\ upper(period) = "D") =>
        /\ returns.kind = "Frame"
        /\ returns.index = Tail(df.index)
        /\ columns(returns) = columns(df)
        /\ \A c \in columns(df) : \A k \in 2..Len(df.index) :
               (~isna(df.data[c][k]) /\ ~isna(df.data[c][k - 1])) =>
                   returns.data[c][k - 1] = SimpleReturn(df.data[c][k - 1], df.data[c][k])

\* C17: after calculate_returns(panel, daily), a return whose current or
\* previous price is missing is in the output, at its date and ticker, as a
\* missing cell.
C17_MissingReturnKept ==
    (Returned /\ df.kind = "Frame" /\ upper(period) = "D") =>
        /\ returns.kind = "Frame"
        /\ \A c \in columns(df) : \A k \in 2..Len(df.index) :
               (isna(df.data[c][k]) \/ isna(df.data[c][k - 1])) =>
                   /\ PositionOf(returns.index, df.index[k]) # 0
                   /\ isna(returns.data[c][PositionOf(returns.index, df.index[k])])

\* The calendar months of a panel after its first one, in order.
LaterMonths(index) ==
    SortedSeq((MonthOf(index[1]) + 1)..MonthOf(index[Len(index)]))

\* The last observed value of a series in a month, missing without any.
LastObserved(index, s, m) ==
    LET J == {j \in 1..Len(index) : MonthOf(index[j]) = m /\ ~isna(s[j])}
    IN IF J = {} THEN NaN ELSE s[SetMax(J)]

\* C18: calculate_returns(panel, monthly) returns one row per calendar month
\* after the panel's first; a cell whose month and previous month both have
\* an observation is the change from the previous month's last observed
\* value to this month's last observed value.
C18_MonthlyRowPerMonth ==
    (Returned /\ df.kind = "Frame" /\ upper(period) = "M") =>
        /\ returns.kind = "Frame"
        /\ returns.index = [j \in 1..Len(LaterMonths(df.index)) |->
                                MonthEnd(LaterMonths(df.index)[j])]
        /\ \A c \in columns(df) : \A j \in 1..Len(LaterMonths(df.index)) :
               LET m == LaterMonths(df.index)[j]
                   before == LastObserved(df.index, df.data[c], m - 1)
                   after == LastObserved(df.index, df.data[c], m)
               IN (~isna(before) /\ ~isna(after)) =>
                      returns.data[c][j] = SimpleReturn(before, after)

\* C19: calculate_returns with a period selector other than daily or
\* monthly ends in an outcome of its own, different from the outcome of a
\* call without a panel.
C19_UnsupportedPeriodDistinct ==
    (Returned /\ df.kind = "Frame" /\ upper(period) \notin {"D", "M"}) =>
        returns # calculate_returns(None, period)

\* -------------------------------------------- DictionaryBuilder on its own
\* create_data_dictionary applied to no panel, or to a panel of one to three
\* tickers over consecutive business days, each ticker observed on every day,
\* on none, on all but the first two, on all but the last, or holding text;
\* with or without daily and monthly return frames, and with at most one
\* ticker whose statistics cannot be computed.
MaxDictRows == 10

DictTickers == {"SPX Index", "NKY Index", "CO1 Comdty"}

Shapes == {"full", "gap", "lead", "tail", "text"}

\* Cell k of a price series of n rows of a shape.
ShapeCell(shape, n, k) ==
    IF shape = "text" THEN Text
    ELSE IF \/ shape = "gap"
            \/ shape = "lead" /\ k <= 2
            \/ shape = "tail" /\ k = n
    THEN NaN
    ELSE Num(100 + k)

DictPanel(n, shape) ==
    Frame([k \in 1..n |-> BusinessDay(k)],
          [c \in DOMAIN shape |-> [k \in 1..n |-> ShapeCell(shape[c], n, k)]])

ReturnShapes == {"all", "last", "none"}

\* A frame of returns of MaxObs rows: 1%, 3%, ... in the columns of cols,
\* the 'SPX Index' column holding all of them, only the last one, or none.
ReturnsArg(cols, shape) ==
    Frame([k \in 1..MaxObs |-> BusinessDay(k + 1)],
          [c \in cols |->
              [k \in 1..MaxObs |->
                  IF c = "SPX Index" /\ (shape = "none" \/ (shape = "last" /\ k < MaxObs))
                  THEN NaN
                  ELSE Norm(2 * k - 1, 100)]])

InitDictionary ==
    /\ \/ df = None /\ failing = {}
       \/ \E T \in SUBSET DictTickers \ {{}} : \E n \in 1..MaxDictRows :
              \E shape \in [T -> Shapes] :
                  /\ df = DictPanel(n, shape)
                  /\ failing \in {{}} \cup {{c} : c \in T}
    /\ \/ dict_daily = None
       \/ \E shape \in ReturnShapes : dict_daily = ReturnsArg(DictTickers, shape)
       \/ dict_daily = ReturnsArg({"NKY Index"}, "all")
    /\ dict_monthly \in {None, ReturnsArg(DictTickers, "all")}
    /\ applied = "none" /\ dictionary = UnboundDict
    /\ fx_mapping = NoData /\ normalized = Unbound
    /\ futures_contracts = {} /\ rolled = Unbound
    /\ period = "D" /\ returns = Unbound
    /\ CleanerIdle
    /\ HeapIdle /\ LoaderIdle /\ MainIdle
    /\ PipelineIdle

ApplyDictionary ==
    /\ applied = "none"
    /\ applied' = "create_data_dictionary"
    /\ dictionary' = create_data_dictionary(df, dict_daily, dict_monthly, failing, 1)
    /\ UNCHANGED <<cleanerVars, pipelineVars, heapVars, loaderVars, mainVars,
                   fx_mapping, normalized, futures_contracts,
                   rolled, period, returns, failing, dict_daily, dict_monthly>>

NextDictionary == ApplyDictionary

SpecDictionary == InitDictionary /\ [][NextDictionary]_vars

Built == applied = "create_data_dictionary"

\* C20: after create_data_dictionary on a panel in which the statistics of
\* some ticker cannot be computed, a dictionary is returned that has an entry
\* for every ticker, the computed one for every ticker that did not fail.
C20_FailingTickerIsolated ==
    (Built /\ df.kind = "Frame" /\ failing # {}) =>
        /\ dictionary.kind = "Dict"
        /\ DOMAIN dictionary.entries = columns(df)
        /\ \A c \in columns(df) \ failing :
               dictionary.entries[c] = DictEntry(df.data[c], df.index, NoReturnStats)

\* The dictionary has been built and returned.
Returned_Dict == Built /\ dictionary.kind = "Dict"

AllMissing(c) == \A k \in 1..Len(df.index) : isna(df.data[c][k])

\* C21: after create_data_dictionary on a panel (none of whose tickers is
\* one whose statistics raise), a dictionary is returned with an entry for
\* every ticker; the entry of a ticker whose entire series is missing has
\* Start Date = 'N/A' and End Date = 'N/A', and the entry of every ticker
\* with an observation has the dates of its first and last observation.
C21_AllMissingTickerIsNA ==
    (Built /\ df.kind = "Frame" /\ columns(df) \cap failing = {}) =>
        /\ dictionary.kind = "Dict"
        /\ DOMAIN dictionary.entries = columns(df)
        /\ \A c \in columns(df) :
               IF AllMissing(c)
               THEN /\ dictionary.entries[c].StartDate = BadLabel
                    /\ dictionary.entries[c].EndDate = BadLabel
               ELSE /\ dictionary.entries[c].StartDate \in SeqToSet(df.index)
                    /\ dictionary.entries[c].EndDate \in SeqToSet(df.index)

\* A built dictionary of a panel with an entirely missing ticker next to an
\* observed one.
C21_Witness ==
    /\ Returned_Dict
    /\ {"SPX Index", "NKY Index"} \subseteq columns(df)
    /\ AllMissing("NKY Index") /\ ~AllMissing("SPX Index")
    /\ dictionary.entries["NKY Index"].StartDate = BadLabel
    /\ dictionary.entries["NKY Index"].EndDate = BadLabel
    /\ dictionary.entries["SPX Index"].StartDate = df.index[1]

\* A finite number: a rational, or a rounded root of one.
IsNumber(v) == v # NotApplicable /\ v[2] # 0

PriceStats(e) == {e.PriceMean, e.PriceStdDev, e.PriceMin, e.PriceMax, e.PriceLast}

\* C22: in every entry of a returned dictionary, Price Mean, Price Std Dev,
\* Price Min, Price Max and Price Last are all 'N/A' when the ticker's series
\* is non-numeric or entirely missing, and are all numbers otherwise.
C22_PriceStatsAllOrNothing ==
    Returned_Dict =>
        \A c \in columns(df) :
            IF ~is_numeric_dtype(df.data[c]) \/ AllMissing(c)
            THEN PriceStats(dictionary.entries[c]) = {NotApplicable}
            ELSE \A v \in PriceStats(dictionary.entries[c]) : IsNumber(v)

RAbs(x) == <<Abs(x[1]), x[2]>>

\* C23: in every entry of a returned dictionary, Completeness (%) is the
\* two-decimal percentage nearest to non-missing count / total rows * 100,
\* Data Points is the non-missing count, and Data Points + Missing Values is
\* the panel's row count.
C23_CompletenessAndCounts ==
    Returned_Dict =>
        \A c \in columns(df) :
            LET e == dictionary.entries[c]
                rows == Len(df.index)
                observed == Cardinality({k \in 1..rows : ~isna(df.data[c][k])})
                exact == Norm(100 * observed, rows)
            IN /\ e.DataPoints = observed
               /\ e.DataPoints + e.MissingValues = rows
               /\ RMul(e.CompletenessPct, Num(100))[2] = 1
               /\ ~RLess(<<1, 200>>, RAbs(RSub(e.CompletenessPct, exact)))

\* A ticker with 8 observations over 10 rows at 80.00, next to one with
\* no observation at 0.
C23_Witness ==
    /\ Returned_Dict
    /\ Len(df.index) = 10
    /\ {"SPX Index", "NKY Index"} \subseteq columns(df)
    /\ dictionary.entries["SPX Index"].DataPoints = 8
    /\ dictionary.entries["SPX Index"].MissingValues = 2
    /\ dictionary.entries["SPX Index"].CompletenessPct = Num(80)
    /\ dictionary.entries["NKY Index"].CompletenessPct = Num(0)

\* The sample variance of the non-missing cells of a series, from the sums
\* of the cells and of their squares.
SampleVariance(s) ==
    LET V == {k \in 1..Len(s) : ~isna(s[k])}
        n == Cardinality(V)
        sum == RSum(s, V)
        squares == RSum([k \in 1..Len(s) |-> RMul(s[k], s[k])], V)
    IN IF n < 2 THEN NaN
       ELSE RDiv(RSub(squares, RDiv(RMul(sum, sum), Num(n))), Num(n - 1))

\* The ticker has a valid observation in the daily return series supplied.
HasDailyReturn(c) ==
    /\ dict_daily.kind = "Frame"
    /\ c \in columns(dict_daily)
    /\ \E k \in 1..Len(dict_daily.index) : ~isna(dict_daily.data[c][k])

C25_CachedReturnsReused ==
    (cached /\ Ended) =>
        /\ fs.daily_returns_pkl.kind # "Absent" =>
               /\ pc = "done"
               /\ results.daily_returns = daily_returns
               /\ fs.daily_returns_pkl = daily_returns
        /\ fs.monthly_returns_pkl.kind # "Absent" =>
               /\ pc = "done"
               /\ results.monthly_returns = monthly_returns
               /\ fs.monthly_returns_pkl = monthly_returns

\* ------------------------------------------ the stage functions on objects
\* The four stage functions called on a frame object: the heap holds the
\* frames by reference, a call gets the reference of its panel and returns
\* the reference of its result (0 for None).  The panel is a raw workbook
\* over a strictly increasing date index.

\* A new object holding frame v.
alloc(h, v) == [heap |-> Append(h, v), ref |-> Len(h) + 1]

\* A variant of copy() that hands back the object itself.
copy_alias(h, r) == [heap |-> h, ref |-> r]

\* DataFrame.copy(): a new object with the same content.
copy(h, r) == alloc(h, h[r])

\* Lines 82-111: the column filter and the copy make new objects; the index
\* assignment is made on the copy, and asfreq().ffill() makes the result.
clean_and_standardize_call(h, r) ==
    LET filtered == alloc(h, drop_unnamed(h[r]))
        c == copy(filtered.heap, filtered.ref)
        result == clean_and_standardize(h[r])
    IN IF result.kind = "Frame" THEN alloc(c.heap, result)
       ELSE [heap |-> c.heap, ref |-> 0]

\* Lines 135-163: the columns are assigned in place on the copy.
normalize_to_usd_call(h, r, fx) ==
    LET c == copy(h, r)
    IN [heap |-> [c.heap EXCEPT ![c.ref] = normalize_to_usd(c.heap[c.ref], fx)],
        ref |-> c.ref]

\* Lines 184-198: the columns are assigned in place on the copy.
handle_futures_rolls_call(h, r, contracts) ==
    LET c == copy(h, r)
    IN [heap |-> [c.heap EXCEPT ![c.ref] = handle_futures_rolls(c.heap[c.ref], contracts)],
        ref |-> c.ref]

\* Lines 218-229: pct_change(), resample().last() and dropna() make new
\* objects; an unsupported period returns None.
calculate_returns_call(h, r, p) ==
    LET result == calculate_returns(h[r], p)
    IN IF result.kind = "Frame" THEN alloc(h, result) ELSE [heap |-> h, ref |-> 0]

InitCall ==
    /\ \E D \in SUBSET {1, 3, 6} \ {{}} : \E nky \in [1..Cardinality(D) -> {0, 1}] :
           df = RawWorkbook(SortedSeq(D), nky)
    /\ period \in {"D", "M", "W"}
    /\ heap = <<df>> /\ arg = 1 /\ ret = 0
    /\ applied = "none"
    /\ fx_mapping = NoData /\ normalized = Unbound
    /\ futures_contracts = {} /\ rolled = Unbound
    /\ returns = Unbound
    /\ failing = {} /\ dict_daily = None /\ dict_monthly = None /\ dictionary = UnboundDict
    /\ cleaned = Unbound /\ recleaned = Unbound /\ cstep = 0
    /\ LoaderIdle /\ MainIdle
    /\ PipelineIdle

\* The call of stage function f on the object of arg.
Invoke(f, out) ==
    /\ applied = "none"
    /\ applied' = f
    /\ heap' = out.heap
    /\ ret' = out.ref
    /\ UNCHANGED <<cleanerVars, pipelineVars, loaderVars, mainVars, arg, fx_mapping,
                   normalized, futures_contracts, rolled, period, returns, failing,
                   dict_daily, dict_monthly, dictionary>>

CallClean == Invoke("clean_and_standardize", clean_and_standardize_call(heap, arg))

CallNormalize ==
    Invoke("normalize_to_usd", normalize_to_usd_call(heap, arg, DefaultFxMapping))

CallRolls ==
    Invoke("handle_futures_rolls",
           handle_futures_rolls_call(heap, arg, DefaultFuturesContracts))

CallReturns == Invoke("calculate_returns", calculate_returns_call(heap, arg, period))

NextCall == CallClean \/ CallNormalize \/ CallRolls \/ CallReturns

SpecCall == InitCall /\ [][NextCall]_vars

\* C26: after a call of clean_and_standardize, normalize_to_usd,
\* handle_futures_rolls or calculate_returns on a panel, the object passed
\* holds the index, columns and cells it held before the call, and a panel
\* that is returned is another object.
C26_StagesLeaveInputUnchanged ==
    applied # "none" =>
        /\ heap[arg] = df
        /\ ret # 0 => ret # arg /\ heap[ret].kind = "Frame"

\* A call of normalize_to_usd whose result differs from the panel passed.
C26_Witness ==
    /\ applied = "normalize_to_usd"
    /\ ret # 0 /\ ret # arg
    /\ heap[ret] # df
    /\ heap[ret] = normalize_to_usd(df, DefaultFxMapping)
    /\ heap[arg] = df

\* ------------------------------------------- pipeline: a failed load
\* load_raw_data returned None in the current run.
FailedLoad == raw_df.kind = "None"

AfterStage(positions) == pc \in positions \cup {"finish", "done", "idle"}

\* The value run_data_pipeline returns after a failed load.
OnlyNoDictionary == [EmptyResults EXCEPT !.data_dictionary = NoDict]

NoneThroughStages ==
    FailedLoad =>
        /\ pc # "raised"
        /\ pc \notin {"done", "idle"} => ENABLED Next
        /\ AfterStage({"normalize", "rolls", "returns", "save", "dictionary"})
              => cleaned_df = None
        /\ AfterStage({"rolls", "returns", "save", "dictionary"}) => usd_df = None
        /\ AfterStage({"returns", "save", "dictionary"}) => processed_df = None
        /\ AfterStage({"save", "dictionary"})
              => daily_returns = None /\ monthly_returns = None
        /\ AfterStage({}) => data_dict = NoDict /\ results = OnlyNoDictionary

\* C28: after a failed load every stage of run_data_pipeline returns None for
\* the None it is given and none raises, the run goes on to its end, no file is
\* written, and the result returned holds data_dictionary = None and no other
\* entry.
C28_FailedLoadPropagates ==
    /\ []NoneThroughStages
    /\ [][FailedLoad' => fs' = fs]_vars

\* A run with an unreadable workbook that has returned, having called every stage.
C28_Witness ==
    /\ pc = "done"
    /\ FailedLoad
    /\ source = Corrupt
    /\ Len(calls) = 6
    /\ results = OnlyNoDictionary

\* ------------------------------------------- pipeline: the raw copy
\* C29: no step of run_data_pipeline changes the raw workbook it reads, and
\* the raw copy is written only when data/raw/<basename> and input_file name
\* different files, however input_file is spelled.
C29_RawInputNeverWritten ==
    [][/\ source' = source
       /\ fs'.raw_copy # fs.raw_copy => ~SameFile(RawOutput(input_file), input_file)]_vars

\* ----------------------------------------------------------------- Loader
\* data_loader.load_data and the loading step of main.process_excel_file.
\* Both read the workbook twice: pd.read_excel(skiprows=3, nrows=1) takes row 4
\* as the header line and row 5 as the one row of values, and
\* pd.read_excel(skiprows=7, header=None) takes the data block from row 8.
\* A sheet holds the cells of row 4 (tickers), the cells of row 5 (fields), the
\* number of columns of the data block (width) and what its first column
\* holds: "datetime64" for date cells, "text" for strings that are no dates.
MaxCols == 3

TickerCells == {"nan", "SPX Index", "Last Price"}

FieldCells == {"nan", "Last Price", "SPX Index", "#N/A N/A"}

FirstColumns == {"datetime64", "text"}

\* A workbook that pd.read_excel cannot open.
Unreadable == [readable |-> FALSE, tickers |-> <<>>, fields |-> <<>>, width |-> 0,
               first |-> "corrupt"]

NonePanel == [kind |-> "None", index |-> "none", from |-> "none", columns |-> <<>>]

empty_cell(cell) == cell = "nan"

Column_(i) == "Column_" \o ToString(i)

\* The column labels pandas makes of a header line: an empty cell becomes
\* 'Unnamed: <position>', a repeated label gets the suffix '.<k>'.
header_labels(row) ==
    [i \in 1..Len(row) |->
        IF empty_cell(row[i]) THEN "Unnamed: " \o ToString(i - 1)
        ELSE LET k == Cardinality({j \in 1..(i - 1) : row[j] = row[i]})
             IN IF k = 0 THEN row[i] ELSE row[i] \o "." \o ToString(k)]

\* 'Unnamed' in str(label), over the labels header_labels makes.
unnamed_label(row, i) == empty_cell(row[i])

\* load_data, lines 35-43: the clean-up of the header values.
clean_headers(column_headers) ==
    [i \in 1..Len(column_headers) |->
        IF empty_cell(column_headers[i])
        THEN (IF i = 1 THEN "Date" ELSE Column_(i))
        ELSE IF column_headers[i] = "#N/A N/A" THEN "NA_Column_" \o ToString(i)
        ELSE column_headers[i]]

\* load_data, lines 49-55: the labels given to the data block.
assign_columns(column_headers, width) ==
    IF width = Len(column_headers) THEN column_headers
    ELSE [i \in 1..width |->
             IF i <= Len(column_headers) THEN column_headers[i] ELSE Column_(i)]

\* 'date' in str(first_col).lower(), over the labels a sheet can give.
mentions_date(label) == label = "Date"

\* to_datetime of an index: date cells and the integers of a RangeIndex
\* convert, text that is no date raises.
to_datetime_raises(dtype) == dtype = "text"

load_data(s) ==
    IF ~s.readable THEN NonePanel
    ELSE LET cols == assign_columns(clean_headers(s.fields), s.width)
             hasDate == \E i \in 1..Len(cols) : cols[i] = "Date"
             \* df[first_col] is a Series only when the label is not repeated
             isSeries == Cardinality({i \in 1..Len(cols) : cols[i] = cols[1]}) = 1
             indexed == \/ hasDate
                        \/ (isSeries /\ s.first = "datetime64")
                        \/ mentions_date(cols[1])
             dtype == IF indexed THEN s.first ELSE "int64"
         IN [kind |-> "Frame",
             index |-> IF dtype = "datetime64" THEN "datetime64"
                       ELSE IF to_datetime_raises(dtype) THEN "object"
                       ELSE "datetime64",
             from |-> IF indexed THEN "column" ELSE "rows",
             columns |-> IF indexed THEN Tail(cols) ELSE cols]

\* main.py, lines 84-86: the tickers of ASSET_MAPPING, in order.
all_expected_tickers ==
    <<"MXAP Index", "MXAPJ Index", "MXAS Index", "MXASJ Index", "PCOMP Index",
      "JCI Index", "FBMKLCI Index", "SET Index", "STI Index", "NU710465 Index",
      "EPHE US Index", "FMETF PM Equity", "GOLDS Index", "CO1 Comdty",
      "S 1 Comdty", "SPX Index", "NKY Index", "USDPHP Index", "USDMYR Index",
      "USDIDR Index", "USDSGD Index", "USDJPY Curncy", "USGG5YR Index",
      "GTPHP5yr Corp", "GTUSDPH5Y Corp">>

\* main.process_excel_file, lines 70-130: the loading step.
load_step(s) ==
    IF ~s.readable THEN NonePanel
    ELSE LET labels == header_labels(s.tickers)
             ticker_names == [labels EXCEPT
                                 ![1] = IF unnamed_label(s.tickers, 1) THEN "Date" ELSE @]
             fromSheet == /\ ticker_names[1] = "Date"
                          /\ \A i \in 1..Len(ticker_names) : ticker_names[i] # "Last Price"
             columns_to_use ==
                 IF fromSheet THEN ticker_names
                 ELSE [i \in 1..s.width |->
                          IF i = 1 THEN "Date"
                          ELSE IF i - 1 <= Len(all_expected_tickers)
                          THEN all_expected_tickers[i - 1]
                          ELSE Column_(i - 1)]
             cols == [i \in 1..s.width |->
                         IF i <= Len(columns_to_use) THEN columns_to_use[i]
                         ELSE Column_(i)]
         IN [kind |-> "Frame",
             index |-> IF s.first = "datetime64" THEN "datetime64" ELSE "object",
             from |-> "column",
             columns |-> Tail(cols)]

Sheets(h) ==
    {[readable |-> TRUE, tickers |-> t, fields |-> f, width |-> w, first |-> d] :
        t \in [1..h -> TickerCells], f \in [1..h -> FieldCells],
        w \in 1..MaxCols, d \in FirstColumns}

InitLoad ==
    /\ \/ sheet = Unreadable
       \/ \E h \in 1..MaxCols : sheet \in Sheets(h)
    /\ loaded = NoPanel
    /\ applied = "none"
    /\ fx_mapping = NoData /\ normalized = Unbound
    /\ futures_contracts = {} /\ rolled = Unbound
    /\ period = "D" /\ returns = Unbound
    /\ failing = {} /\ dict_daily = None /\ dict_monthly = None /\ dictionary = UnboundDict
    /\ df = None
    /\ CleanerIdle /\ HeapIdle /\ MainIdle
    /\ PipelineIdle

Load(f, panel) ==
    /\ applied = "none"
    /\ applied' = f
    /\ loaded' = panel
    /\ UNCHANGED <<cleanerVars, pipelineVars, heapVars, mainVars, sheet, fx_mapping,
                   normalized, futures_contracts, rolled, period, returns, failing,
                   dict_daily, dict_monthly, dictionary>>

LoadData == Load("load_data", load_data(sheet))

LoadStep == Load("process_excel_file", load_step(sheet))

NextLoad == LoadData \/ LoadStep

SpecLoad == InitLoad /\ [][NextLoad]_vars

\* The tickers a sheet holds in its rows 4 and 5.
TickersOf(s) ==
    ({s.tickers[i] : i \in 1..Len(s.tickers)} \cup {s.fields[i] : i \in 1..Len(s.fields)})
        \cap {"SPX Index"}

Unique(names) == \A i, j \in 1..Len(names) : names[i] = names[j] => i = j

\* C27: a panel returned by load_data or by the loading step of
\* process_excel_file has a date index and column names that are pairwise
\* different tickers found in the workbook.
C27_LoaderReturnsValidatedPanel ==
    (applied \in {"load_data", "process_excel_file"} /\ loaded.kind = "Frame") =>
        /\ loaded.index = "datetime64" /\ loaded.from = "column"
        /\ Unique(loaded.columns)
        /\ \A i \in 1..Len(loaded.columns) : loaded.columns[i] \in TickersOf(sheet)

\* -------------------------------------------------------------- main.main
\* The workbooks main.main touches: the one at excel_path (NoSheet when there
\* is no such file) and the one fix_and_process_excel writes.
MaxHeader == 2

MainPaths == {"prices.xlsx", "fixed_runs/prices.xlsx", "data/processed/fixed_prices.xlsx"}

\* A plausible slip: the test made on the directory part of the path.
is_fixed_file_dirname(path) == path = "fixed_runs/prices.xlsx"

\* Line 268: "fixed_" in os.path.basename(excel_path)
is_fixed_file(path) == path = "data/processed/fixed_prices.xlsx"

\* Line 219: os.path.join('data/processed', f"fixed_{basename}")
output_path(path) ==
    IF is_fixed_file(path) THEN "data/processed/fixed_fixed_prices.xlsx"
    ELSE "data/processed/fixed_prices.xlsx"

\* preprocess_data (data_loader.py, lines 97-98): pd.to_datetime(index) raises
\* on an index of text that is no date, and nothing in process_excel_file
\* catches it.
preprocess_raises(panel) == panel.index # "datetime64"

\* process_excel_file on a workbook; opened tells whether pd.read_excel could
\* open the file at this moment.
process_excel_file(s, opened) ==
    IF s = NoSheet THEN "False"
    ELSE LET panel == load_step([s EXCEPT !.readable = s.readable /\ opened])
         IN IF panel.kind = "None" THEN "False"
            ELSE IF preprocess_raises(panel) THEN "Raised"
            ELSE "True"

\* Lines 222-238: the workbook fix_and_process_excel writes: one line of
\* labels, then the data block, so that its rows 4 and 5 hold data cells.
fixed_workbook(s) ==
    [readable |-> TRUE,
     tickers |-> [i \in 1..s.width |-> "value"],
     fields |-> [i \in 1..s.width |-> "value"],
     width |-> s.width,
     first |-> s.first]

InitMain ==
    /\ mpc = "start"
    /\ excel_path \in MainPaths
    /\ \/ disk = [input |-> NoSheet, fixed |-> NoSheet]
       \/ \E h \in 1..MaxHeader : \E s \in Sheets(h) \cup {Unreadable} :
             disk = [input |-> s, fixed |-> NoSheet]
    /\ attempts = <<>> /\ success = FALSE /\ reported = "nothing"
    /\ applied = "none"
    /\ fx_mapping = NoData /\ normalized = Unbound
    /\ futures_contracts = {} /\ rolled = Unbound
    /\ period = "D" /\ returns = Unbound
    /\ failing = {} /\ dict_daily = None /\ dict_monthly = None /\ dictionary = UnboundDict
    /\ df = None
    /\ CleanerIdle /\ HeapIdle /\ LoaderIdle
    /\ PipelineIdle

MainUnchanged ==
    UNCHANGED <<cleanerVars, pipelineVars, heapVars, loaderVars, excel_path, applied,
                fx_mapping, normalized, futures_contracts, rolled, period, returns,
                failing, dict_daily, dict_monthly, dictionary>>

Called(fn, path, result) == [fn |-> fn, path |-> path, result |-> result]

\* Lines 262-265: no such file, main returns.
MainNotFound ==
    /\ mpc = "start"
    /\ disk.input = NoSheet
    /\ mpc' = "returned"
    /\ reported' = "file not found"
    /\ UNCHANGED <<disk, attempts, success>>
    /\ MainUnchanged

\* Lines 268-277: the standard attempt (the only one for a fixed file).
MainStandard ==
    /\ mpc = "start"
    /\ disk.input # NoSheet
    /\ \E opened \in BOOLEAN :
          LET result == process_excel_file(disk.input, opened)
          IN /\ attempts' = Append(attempts,
                                   Called("process_excel_file", excel_path, result))
             /\ success' = (result = "True")
             /\ mpc' = IF result = "Raised" THEN "raised"
                       ELSE IF is_fixed_file(excel_path) \/ result = "True" THEN "report"
                       ELSE "fallback"
    /\ UNCHANGED <<disk, reported>>
    /\ MainUnchanged

\* Lines 280-282 and fix_and_process_excel: read the data block, write the
\* fixed workbook, process it; any exception makes the result False.
MainFallback ==
    /\ mpc = "fallback"
    /\ \E opened \in BOOLEAN : \E reopened \in BOOLEAN :
          IF ~(disk.input.readable /\ opened)
          THEN /\ attempts' = Append(attempts,
                                     Called("fix_and_process_excel", excel_path, "False"))
               /\ success' = FALSE
               /\ UNCHANGED disk
          ELSE LET written == fixed_workbook(disk.input)
                   result == process_excel_file(written, reopened)
               IN /\ disk' = [disk EXCEPT !.fixed = written]
                  /\ attempts' = attempts \o
                        <<Called("fix_and_process_excel", excel_path,
                                 IF result = "True" THEN "True" ELSE "False"),
                          Called("process_excel_file", output_path(excel_path), result)>>
                  /\ success' = (result = "True")
    /\ mpc' = "report"
    /\ UNCHANGED reported
    /\ MainUnchanged

\* Lines 284-291: the closing message.
MainReport ==
    /\ mpc = "report"
    /\ reported' = IF success THEN "completed successfully" ELSE "failed"
    /\ mpc' = "done"
    /\ UNCHANGED <<disk, attempts, success>>
    /\ MainUnchanged

NextMain == MainNotFound \/ MainStandard \/ MainFallback \/ MainReport

SpecMain == InitMain /\ [][NextMain]_vars /\ WF_vars(NextMain)

CallsOf(fn) == {i \in 1..Len(attempts) : attempts[i].fn = fn}

MainEnded == mpc \in {"done", "returned", "raised"}

AttemptsBounded ==
    /\ Cardinality(CallsOf("process_excel_file")) <= 2
    /\ Cardinality(CallsOf("fix_and_process_excel")) <= 1
    /\ \A i \in CallsOf("fix_and_process_excel") :
          /\ i = 2
          /\ attempts[1] = Called("process_excel_file", excel_path, "False")
          /\ excel_path # "data/processed/fixed_prices.xlsx"
    /\ reported = "completed successfully" =>
          LET last == SetMax(CallsOf("process_excel_file"))
          IN attempts[last].result = "True"

\* C30: main.main ends; it calls process_excel_file at most twice and
\* fix_and_process_excel at most once, only as its second call after
\* process_excel_file returned False on a path whose basename has no 'fixed_';
\* and it prints the success message only when its last process_excel_file
\* call returned True.
C30_MainTerminatesBounded == []AttemptsBounded /\ <>MainEnded

\* The fallback succeeded after a standard attempt that returned False.
C30_Witness ==
    /\ mpc = "done"
    /\ reported = "completed successfully"
    /\ Len(attempts) = 3
    /\ attempts[1].result = "False"
    /\ attempts[3] = Called("process_excel_file", "data/processed/fixed_prices.xlsx", "True")

====
